---------------------------- MODULE Spec2Model ----------------------------
(***************************************************************************)
(* Model of the weather chat client (src/client.py): the session shell     *)
(* `main`, the tool-calling loop `process_conversation`, and the two       *)
(* providers it talks to (the chat model and the MCP tool session), which  *)
(* are the environment and answer nondeterministically; and of the tool    *)
(* get_forecast of the MCP server (src/server.py).                         *)
(*                                                                         *)
(* Spec is a whole session of the client from before the connection;       *)
(* FairSpec is such a session under the fairness termination relies on;    *)
(* SpecAdapt is the startup against an arbitrary provider's catalog;       *)
(* SpecForecast is one call of get_forecast.                               *)
(*                                                                         *)
(* Python strings are TLA+ strings.  The Russian literals of the source    *)
(* are written as ASCII glosses; None is the sentinel string None.  A      *)
(* missing or empty tool_calls list (None or []) is the empty sequence:    *)
(* the source only ever tests it for truthiness.                           *)
(***************************************************************************)
EXTENDS Integers, Sequences, FiniteSets

(***************************************************************************)
(* Bounds of the model (not program constants).                            *)
(***************************************************************************)
\* user turns the shell accepts in one session
MaxUserTurns == 2
\* tool-call requests the model may put in one assistant turn
MaxToolCalls == 2
\* departures of the environment from the nominal exchange (a tool-call
\* response is one well-formed request to a known tool with no content beside
\* it, a result is one text element, a final response has content) within one
\* session
MaxAnomalies == 1
\* tools in a catalog of an arbitrary provider
MaxTools == 2
\* records in a forecast response of the weather API
MaxRecords == 4
\* largest magnitude of the days argument of get_forecast
MaxDaysArg == 7
\* user turns of a session in the runs checked for termination
MaxFairTurns == 1

(***************************************************************************)
(* Program constants and literals.                                         *)
(***************************************************************************)
\* client.py:113
max_iterations == 5

None == "<None>"

\* client.py:58-63
SYSTEM_PROMPT == "You are a helpful weather assistant"
\* client.py:136  "Izvinite, ya ne smog sformirovat otvet."
EMPTY_FALLBACK == "Sorry, I could not produce a response."
\* client.py:169  "Izvinite, obrabotka zanyala slishkom mnogo vremeni."
TIMEOUT_FALLBACK == "Sorry, processing took too long."
\* client.py:154 (dead branch of the conditional expression)
NO_RESULT == "No result"
\* client.py:156
EMPTY_RESULT == "Tool executed, but the result is empty"

\* client.py:190  "Instrument bez opisaniya"
NO_DESCRIPTION == "Tool without description"

\* client.py:76
ExitKeywords == {"vyhod", "exit", "quit", "q"}

(***************************************************************************)
(* Values the environment draws from.                                      *)
(***************************************************************************)
\* what input() returns after .strip()
UserInputs == {"EXIT", "", "weather in Moscow?"}

\* content of a model response that carries no tool calls
FinalContents == {None, "", "Sunny, 21C in Moscow"}
\* content of a model response that carries tool calls
ToolContents == {None, "Let me check"}

\* tool names the model may ask for; the first is in the catalog
KnownTool == "get_current_weather"
UnknownTool == "get_tides"
ToolNames == {KnownTool, UnknownTool}

\* argument payloads (tool_call.function.arguments, a JSON text)
ArgsObject == "{\"city\": \"Moscow\"}"
ArgsTruncated == "{\"city\": "
ArgsArray == "[\"Moscow\"]"
Payloads == {ArgsObject, ArgsTruncated, ArgsArray}

\* exceptions
JSONDecodeError == "JSONDecodeError"
AttributeError == "AttributeError"
APIError == "APIError"
McpError == "McpError"
ListToolsError == "McpError (list_tools)"
KeyboardInterrupt == "KeyboardInterrupt"

\* content elements of a CallToolResult
TextContent(t) == [type |-> "text", text |-> t]
ImageContent == [type |-> "image", text |-> None]

\* result.content of a successful session.call_tool
NominalContent == << TextContent("Sunny, 21C") >>
ResultContents ==
    { NominalContent,
      << >>,
      << TextContent("Sunny, 21C"), TextContent("Wind 3 m/s") >>,
      << ImageContent, TextContent("Sunny, 21C") >> }
UnknownToolContent == << TextContent("Unknown tool: get_tides") >>

(***************************************************************************)
(* Pure helpers of the source.                                             *)
(***************************************************************************)
\* str.lower(), client.py:76
Lower(s) == IF s = "EXIT" THEN "exit" ELSE s

\* Python truthiness of an Optional[str]
Truthy(v) == v # None /\ v # ""

\* json.loads(tool_call.function.arguments), client.py:144
JsonLoads(s) ==
    CASE s = ArgsObject    -> [ok |-> TRUE,  type |-> "dict"]
      [] s = ArgsArray     -> [ok |-> TRUE,  type |-> "list"]
      [] OTHER             -> [ok |-> FALSE, type |-> "none"]

\* the exception lines 144-146 raise for a payload, None when they pass:
\* json.loads on a malformed text, .items() on a value that is not a dict
ParseError(s) ==
    IF ~JsonLoads(s).ok THEN JSONDecodeError
    ELSE IF JsonLoads(s).type # "dict" THEN AttributeError
    ELSE None

\* client.py:159
ErrorText(e) ==
    CASE e = McpError       -> "Error calling tool: Connection closed"
      [] e = AttributeError -> "Error calling tool: 'ImageContent' object has no attribute 'text'"
      [] OTHER              -> "Error calling tool: unexpected"

\* client.py:151, `result` before any call has returned
NoResult == [content |-> << >>]

\* client.py:153-159, the reduction of a returned result to one text
ToolResultTextIgnoresContent(content) == EMPTY_RESULT

ToolResultTextNoResult(content) ==
    IF content # << >>
    THEN IF content[1].type = "text" THEN content[1].text
         ELSE ErrorText(AttributeError)
    ELSE NO_RESULT

ToolResultText(content) ==
    IF content # << >>
    THEN IF content # << >>
         THEN IF content[1].type = "text" THEN content[1].text
              ELSE ErrorText(AttributeError)
         ELSE NO_RESULT
    ELSE EMPTY_RESULT

\* client.py:136
FinalAnswerSwapped(content) == IF Truthy(content) THEN EMPTY_FALLBACK ELSE content

FinalAnswerTimeoutText(content) == IF Truthy(content) THEN content ELSE TIMEOUT_FALLBACK

FinalAnswer(content) == IF Truthy(content) THEN content ELSE EMPTY_FALLBACK

\* client.py:55-65
SystemMessage ==
    [role |-> "system", content |-> SYSTEM_PROMPT,
     tool_calls |-> << >>, tool_call_id |-> None]

\* client.py:84-87
UserMessage(text) ==
    [role |-> "user", content |-> text,
     tool_calls |-> << >>, tool_call_id |-> None]

\* client.py:128-132
AssistantMessage(content, calls) ==
    [role |-> "assistant", content |-> content,
     tool_calls |-> calls, tool_call_id |-> None]

\* client.py:162-166
ToolMessageFirstId(calls, k, text) ==
    [role |-> "tool", content |-> text,
     tool_calls |-> << >>, tool_call_id |-> calls[1].id]

ToolMessage(calls, k, text) ==
    [role |-> "tool", content |-> text,
     tool_calls |-> << >>, tool_call_id |-> calls[k].id]

\* client.py:119, the history handed to the model
MessagesArgTruncated(m) == SubSeq(m, 2, Len(m))

MessagesArg(m) == m

\* client.py:141, the for loop over tool_calls: another request remains
MoreToolCallsSkipLast(k, n) == k + 1 < n

MoreToolCalls(k, n) == k < n

\* client.py:150, `await`: the loop is suspended until the call is over
AfterIssueNoAwait(k, n) ==
    IF k < n THEN [pc |-> "dispatch", k |-> k + 1] ELSE [pc |-> "calling", k |-> k]

AfterIssue(k, n) == [pc |-> "calling", k |-> k]

\* client.py:121
TOOL_CHOICE == "auto"

\* server.py:70-81 and 133-145: the tools the MCP server of this repository
\* declares (name, docstring, schema of the signature)
ServerCatalog ==
    << [name |-> "get_current_weather",
        description |-> "Get the current weather for the given city",
        inputSchema |-> "{city: string, units: string = metric}"],
       [name |-> "get_forecast",
        description |-> "Get the weather forecast for several days",
        inputSchema |-> "{city: string, days: integer = 3, units: string = metric}"] >>

\* the tool descriptors an arbitrary MCP provider may list: the description
\* is optional (None) and may be empty, the schema is passed as it comes
ToolDescriptors ==
    [name : {"get_current_weather", "get_forecast"},
     description : {None, "", "Get the current weather for the given city"},
     inputSchema : {None, "{city: string, units: string = metric}"}]

\* the catalogs of at most MaxTools descriptors
Catalogs == UNION { [1..n -> ToolDescriptors] : n \in 0..MaxTools }

\* the provider knows the tool: its name is in the catalog it listed
InCatalog(name, catalog) == \E i \in 1..Len(catalog) : catalog[i].name = name

\* client.py:186-193, one entry of the OpenAI tool list
OpenAIToolRawDescription(tool) ==
    [type |-> "function",
     function |-> [name |-> tool.name,
                   description |-> tool.description,
                   parameters |-> tool.inputSchema]]

OpenAITool(tool) ==
    [type |-> "function",
     function |-> [name |-> tool.name,
                   description |-> IF Truthy(tool.description)
                                   THEN tool.description ELSE NO_DESCRIPTION,
                   parameters |-> tool.inputSchema]]

\* client.py:172-196
RECURSIVE convert_mcp_tools_to_openai(_)
convert_mcp_tools_to_openai(mcp_tools) ==
    IF mcp_tools = << >> THEN << >>
    ELSE << OpenAITool(Head(mcp_tools)) >> \o convert_mcp_tools_to_openai(Tail(mcp_tools))

\* client.py:115, the value of `iteration` with which an invocation of
\* process_conversation starts, `previous` being where the last one stopped
LoopStartCarried(previous) == previous

LoopStart(previous) == 0

\* client.py:36-37, what leaving the `async with` blocks does to the
\* connection, on a normal exit and on an exception alike
ReleaseSkipped(conn) == conn

Release(conn) == "closed"

\* client.py:115 and 168, the for loop has run out of iterations
BudgetExhaustedLate(i) == i > max_iterations

BudgetExhausted(i) == i >= max_iterations

\* client.py:120, the tools argument of a model query
ToolsArgRaw(converted, listed) == listed

ToolsArg(converted, listed) == converted

(***************************************************************************)
(* The model's tool-call requests.  The identifier of a request is unique  *)
(* within its assistant turn (the provider's guarantee) and repeats from   *)
(* one assistant turn to the next.                                         *)
(***************************************************************************)
CallId(j) == IF j = 1 THEN "call_1" ELSE IF j = 2 THEN "call_2" ELSE "call_3"

ToolCall(j, name, args) == [id |-> CallId(j), name |-> name, arguments |-> args]

\* cost of a request in anomalies: an unknown tool name, a payload that is
\* not the nominal one
NameCost(c) == IF c.name # KnownTool THEN 1 ELSE 0

PayloadCost(c) == IF c.arguments # ArgsObject THEN 1 ELSE 0

CallCost(c) == NameCost(c) + PayloadCost(c)

RECURSIVE SumCost(_)
SumCost(calls) ==
    IF calls = << >> THEN 0 ELSE CallCost(calls[1]) + SumCost(Tail(calls))

RECURSIVE SumNameCost(_)
SumNameCost(calls) ==
    IF calls = << >> THEN 0 ELSE NameCost(calls[1]) + SumNameCost(Tail(calls))

\* cost of a response with these requests: one anomaly per request beyond the
\* first or per departing payload, whichever is more, and one per unknown name
ResponseCost(calls) ==
    LET extra == Len(calls) - 1
        payloads == SumCost(calls) - SumNameCost(calls)
    IN  (IF extra > payloads THEN extra ELSE payloads) + SumNameCost(calls)

\* the request lists of length n in which at most `spare` requests depart
\* from the nominal one
ToolCallLists(n, spare) ==
    UNION { { [j \in 1..n |-> IF j \in P THEN ToolCall(j, f[j][1], f[j][2])
                                         ELSE ToolCall(j, KnownTool, ArgsObject)] :
                f \in [P -> (ToolNames \X Payloads) \ {<< KnownTool, ArgsObject >>}] } :
            P \in { Q \in SUBSET (1..n) : Cardinality(Q) <= spare } }

----------------------------------------------------------------------------
(***************************************************************************)
(* server.py, get_forecast.                                                *)
(***************************************************************************)
\* server.py:149
MIN_DAYS == 1

MAX_DAYS == 5

\* server.py:155, the API gives one record per 3 hours
RECORDS_PER_DAY == 8

Min(a, b) == IF a < b THEN a ELSE b

Max(a, b) == IF a > b THEN a ELSE b

\* server.py:149  days = min(max(days, 1), 5)
ClampDays(days) == Min(Max(days, MIN_DAYS), MAX_DAYS)

\* server.py:155
Cnt(days) == days * RECORDS_PER_DAY

\* the days arguments a caller may pass
DaysArgs == (0 - MaxDaysArg)..MaxDaysArg

\* the dates of item["dt_txt"].split()[0] (server.py:179)
Dates == {"2024-05-01", "2024-05-02", "2024-05-03"}

\* data["list"] of a response: record i is [idx |-> i, date |-> its date]
RecordLists ==
    UNION { { [i \in 1..n |-> [idx |-> i, date |-> f[i]]] : f \in [1..n -> Dates] } :
            n \in 0..MaxRecords }

\* server.py:210-246, a day block; what the claims use of it is the date and
\* the records it was computed from
format_day_forecast(day_data) ==
    [date |-> day_data[1].date, items |-> day_data]

\* server.py:176-191, the for loop from record i on; `st` holds forecasts,
\* current_date and day_data
RECURSIVE GroupFrom(_, _, _, _)
GroupFrom(list, i, days, st) ==
    IF i > Len(list) THEN st
    ELSE LET item == list[i]
         IN  IF st.current_date # item.date
             THEN LET flushed == IF st.day_data # << >>
                                 THEN Append(st.forecasts, format_day_forecast(st.day_data))
                                 ELSE st.forecasts
                  IN  IF st.day_data # << >> /\ Len(flushed) >= days
                      THEN [st EXCEPT !.forecasts = flushed]
                      ELSE GroupFrom(list, i + 1, days,
                                     [forecasts |-> flushed,
                                      current_date |-> item.date,
                                      day_data |-> << item >>])
             ELSE GroupFrom(list, i + 1, days,
                            [st EXCEPT !.day_data = Append(st.day_data, item)])

\* server.py:193-195, the last day
LastDayUnguarded(st, days) ==
    IF st.day_data # << >>
    THEN Append(st.forecasts, format_day_forecast(st.day_data))
    ELSE st.forecasts

LastDay(st, days) ==
    IF st.day_data # << >> /\ Len(st.forecasts) < days
    THEN Append(st.forecasts, format_day_forecast(st.day_data))
    ELSE st.forecasts

\* server.py:171-195
GroupByDay(list, days) ==
    LastDay(GroupFrom(list, 1, days,
                      [forecasts |-> << >>, current_date |-> None, day_data |-> << >>]),
            days)

\* no get_forecast call is being served
IdleForecast ==
    [pc |-> "idle", arg |-> 0, days |-> 0, cnt |-> 0, list |-> << >>,
     kind |-> None, forecasts |-> << >>]

----------------------------------------------------------------------------
VARIABLES
    pc,             \* position of the program
    connection,     \* the MCP session/stdio connection: "open" or "closed"
    messages,       \* the conversation history (client.py:55)
    user_input,     \* last value read by input() (client.py:73)
    iteration,      \* loop variable of process_conversation (client.py:115)
    tool_calls,     \* assistant_message.tool_calls being iterated (client.py:141)
    k,              \* position of the for loop in tool_calls (client.py:141)
    tool_result,    \* client.py:154-159
    final_response, \* client.py:90
    error,          \* exception that left asyncio.run(main()), or None
    inflight,       \* requests issued to session.call_tool and not yet over
    callLog,        \* every session.call_tool issued in the session
    raised,         \* the issued calls that ended by raising
    queries,        \* model queries issued by the current invocation
    sent,           \* messages argument of the latest model query
    result,         \* client.py:151, the latest result a provider call returned
    userTurns,      \* user turns accepted so far
    anomalies,      \* departures from the nominal exchange so far
    tools_list,     \* tools_list.tools (client.py:45), << >> before the listing
    openai_tools,   \* client.py:52
    listings,       \* session.list_tools calls made
    conversions,    \* convert_mcp_tools_to_openai calls made
    sentTools,      \* tools argument of the latest model query
    sentChoice,     \* tool_choice argument of the latest model query
    forecast        \* server.py:134-207, a get_forecast call of the server

\* the variables of the chat loop
chatVars == << pc, connection, messages, user_input, iteration, tool_calls, k,
               tool_result, final_response, error, inflight, callLog, raised,
               result, queries, sent, userTurns, anomalies >>

\* what the startup of the session leaves behind
catalogVars == << tools_list, openai_tools, listings, conversions >>

\* the tool arguments of the latest model query
sentVars == << sentTools, sentChoice >>

\* the server's side
serverVars == << forecast >>

vars == << chatVars, catalogVars, sentVars, serverVars >>

\* positions inside process_conversation
Active == {"query", "dispatch", "calling"}

Last(s) == s[Len(s)]

\* positions of the assistant turns of a history
AssistantIdx(h) == { i \in 1..Len(h) : h[i].role = "assistant" }

\* the assistant turn nearest before position p, 0 when there is none
RECURSIVE NearestAssistant(_, _)
NearestAssistant(h, p) ==
    IF p <= 1 THEN 0
    ELSE IF h[p - 1].role = "assistant" THEN p - 1
    ELSE NearestAssistant(h, p - 1)

\* position of the assistant turn whose requests are being dispatched
CurrentAssistant == NearestAssistant(messages, Len(messages) + 1)

\* The process before line 36.  The history of lines 55-65 is a constant that
\* nothing reads before line 71; it is in place from the start.
Init ==
    /\ pc = "connect"
    /\ connection = "closed"
    /\ messages = << SystemMessage >>
    /\ user_input = None
    /\ iteration = 0
    /\ tool_calls = << >>
    /\ k = 0
    /\ tool_result = None
    /\ final_response = None
    /\ error = None
    /\ inflight = {}
    /\ callLog = << >>
    /\ raised = {}
    /\ result = NoResult
    /\ queries = 0
    /\ sent = << >>
    /\ userTurns = 0
    /\ anomalies = 0
    /\ tools_list = << >>
    /\ openai_tools = << >>
    /\ listings = 0
    /\ conversions = 0
    /\ sentTools = << >>
    /\ sentChoice = None
    /\ forecast = IdleForecast

\* An exception leaves process_conversation: main has no handler, both
\* `async with` blocks release the connection (client.py:36-37), and the
\* handler of client.py:206 prints it; the process is over.
Propagate(e) ==
    /\ pc' = "ended"
    /\ connection' = Release(connection)
    /\ error' = e

\* client.py:36-39: the server is started, the session is initialised
Connect ==
    /\ pc = "connect"
    /\ pc' = "list"
    /\ connection' = "open"
    /\ UNCHANGED << messages, user_input, iteration, tool_calls, k, tool_result,
                    final_response, error, inflight, callLog, raised, result, queries,
                    sent, userTurns, anomalies >>
    /\ UNCHANGED << catalogVars, sentVars >>
    /\ UNCHANGED serverVars

\* client.py:45-68: the provider lists its tools, one of `catalogs`; the list
\* is converted and the chat loop is entered
ListTools(catalogs) ==
    /\ pc = "list"
    /\ \E listed \in catalogs :
        /\ tools_list' = listed
        /\ openai_tools' = convert_mcp_tools_to_openai(listed)
    /\ listings' = listings + 1
    /\ conversions' = conversions + 1
    /\ pc' = "input"
    /\ UNCHANGED << connection, messages, user_input, iteration, tool_calls, k,
                    tool_result, final_response, error, inflight, callLog,
                    raised, result, queries, sent, userTurns, anomalies >>
    /\ UNCHANGED sentVars
    /\ UNCHANGED serverVars

\* client.py:45 against the server of this repository
ListServerTools == ListTools({ServerCatalog})

\* client.py:45 against an arbitrary provider
ListAnyTools == ListTools(Catalogs)

\* client.py:45, session.list_tools raises
ListToolsFails ==
    /\ pc = "list"
    /\ listings' = listings + 1
    /\ Propagate(ListToolsError)
    /\ UNCHANGED << messages, user_input, iteration, tool_calls, k, tool_result,
                    final_response, inflight, callLog, raised, result, queries, sent,
                    userTurns, anomalies >>
    /\ UNCHANGED << tools_list, openai_tools, conversions, sentVars >>
    /\ UNCHANGED serverVars

\* client.py:204: the user interrupts the process while it waits for input,
\* for the model or for a tool; the `async with` blocks are left
Interrupt ==
    /\ pc \in {"input", "query", "calling"}
    /\ anomalies < MaxAnomalies
    /\ anomalies' = anomalies + 1
    /\ Propagate(KeyboardInterrupt)
    /\ UNCHANGED << messages, user_input, iteration, tool_calls, k, tool_result,
                    final_response, inflight, callLog, raised, result, queries, sent,
                    userTurns >>
    /\ UNCHANGED << catalogVars, sentVars >>
    /\ UNCHANGED serverVars

\* client.py:73-78: an exit keyword ends the chat loop
ReadExit ==
    /\ pc = "input"
    /\ \E u \in UserInputs :
        /\ Lower(u) \in ExitKeywords
        /\ user_input' = u
    /\ pc' = "ended"
    /\ connection' = Release(connection)
    /\ UNCHANGED << messages, iteration, tool_calls, k, tool_result,
                    final_response, error, inflight, callLog, raised, result, queries, sent,
                    userTurns, anomalies >>
    /\ UNCHANGED << catalogVars, sentVars >>
    /\ UNCHANGED serverVars

\* client.py:80-81: an empty line is skipped
ReadEmpty ==
    /\ pc = "input"
    /\ \E u \in UserInputs :
        /\ Lower(u) \notin ExitKeywords
        /\ u = ""
        /\ user_input' = u
    /\ UNCHANGED << pc, connection, messages, iteration, tool_calls, k,
                    tool_result, final_response, error, inflight, callLog, raised, result,
                    queries, sent, userTurns, anomalies >>
    /\ UNCHANGED << catalogVars, sentVars >>
    /\ UNCHANGED serverVars

\* client.py:84-94 and 112-115: the user turn is appended and
\* process_conversation is entered
ReadUserTurn ==
    /\ pc = "input"
    /\ userTurns < MaxUserTurns
    /\ \E u \in UserInputs :
        /\ Lower(u) \notin ExitKeywords
        /\ u # ""
        /\ user_input' = u
        /\ messages' = Append(messages, UserMessage(u))
    /\ pc' = "query"
    /\ iteration' = LoopStart(iteration)
    /\ queries' = 0
    /\ tool_calls' = << >>
    /\ k' = 0
    /\ tool_result' = None
    /\ final_response' = None
    /\ result' = NoResult
    /\ userTurns' = userTurns + 1
    /\ UNCHANGED << connection, error, inflight, callLog, raised, sent, anomalies >>
    /\ UNCHANGED << catalogVars, sentVars >>
    /\ UNCHANGED serverVars

\* client.py:117-136 and 97, the model answers without tool calls
QueryModelFinal ==
    /\ pc = "query"
    /\ iteration < max_iterations
    /\ \E c \in FinalContents :
        LET cost == IF Truthy(c) THEN 0 ELSE 1
        IN  /\ anomalies + cost <= MaxAnomalies
            /\ anomalies' = anomalies + cost
            /\ messages' = Append(messages, AssistantMessage(c, << >>))
            /\ final_response' = FinalAnswer(c)
    /\ sent' = MessagesArg(messages)
    /\ queries' = queries + 1
    /\ pc' = "input"
    /\ UNCHANGED << connection, user_input, iteration, tool_calls, k,
                    tool_result, error, inflight, callLog, raised, result, userTurns >>
    /\ sentTools' = ToolsArg(openai_tools, tools_list)
    /\ sentChoice' = TOOL_CHOICE
    /\ UNCHANGED catalogVars
    /\ UNCHANGED serverVars

\* client.py:117-141, the model answers with tool calls
QueryModelTools ==
    /\ pc = "query"
    /\ iteration < max_iterations
    /\ \E c \in ToolContents, n \in 1..MaxToolCalls :
        /\ anomalies + (IF c # None THEN 1 ELSE 0) + (n - 1) <= MaxAnomalies
        /\ \E calls \in ToolCallLists(n, MaxAnomalies - anomalies) :
            LET cost == (IF c # None THEN 1 ELSE 0) + ResponseCost(calls)
            IN  /\ anomalies + cost <= MaxAnomalies
                /\ anomalies' = anomalies + cost
                /\ messages' = Append(messages, AssistantMessage(c, calls))
                /\ tool_calls' = calls
    /\ sent' = MessagesArg(messages)
    /\ queries' = queries + 1
    /\ k' = 1
    /\ pc' = "dispatch"
    /\ UNCHANGED << connection, user_input, iteration, tool_result,
                    final_response, error, inflight, callLog, raised, result, userTurns >>
    /\ sentTools' = ToolsArg(openai_tools, tools_list)
    /\ sentChoice' = TOOL_CHOICE
    /\ UNCHANGED catalogVars
    /\ UNCHANGED serverVars

\* client.py:117-122, the model query raises
QueryModelFails ==
    /\ pc = "query"
    /\ iteration < max_iterations
    /\ anomalies < MaxAnomalies
    /\ anomalies' = anomalies + 1
    /\ sent' = MessagesArg(messages)
    /\ queries' = queries + 1
    /\ Propagate(APIError)
    /\ UNCHANGED << messages, user_input, iteration, tool_calls, k,
                    tool_result, final_response, inflight, callLog, raised, result,
                    userTurns >>
    /\ sentTools' = ToolsArg(openai_tools, tools_list)
    /\ sentChoice' = TOOL_CHOICE
    /\ UNCHANGED catalogVars
    /\ UNCHANGED serverVars

\* client.py:143-146, the payload of request k does not parse to a dict
ParseFails ==
    /\ pc = "dispatch"
    /\ ParseError(tool_calls[k].arguments) # None
    /\ Propagate(ParseError(tool_calls[k].arguments))
    /\ UNCHANGED << messages, user_input, iteration, tool_calls, k,
                    tool_result, final_response, inflight, callLog, raised, result, queries,
                    sent, userTurns, anomalies >>
    /\ UNCHANGED << catalogVars, sentVars >>
    /\ UNCHANGED serverVars

\* client.py:143-150, request k is parsed and session.call_tool is issued
IssueCall ==
    /\ pc = "dispatch"
    /\ ParseError(tool_calls[k].arguments) = None
    /\ LET call == [at |-> CurrentAssistant, j |-> k,
                    id |-> tool_calls[k].id, name |-> tool_calls[k].name,
                    arguments |-> tool_calls[k].arguments]
       IN  /\ inflight' = inflight \cup {call}
           /\ callLog' = Append(callLog, call)
    /\ pc' = AfterIssue(k, Len(tool_calls)).pc
    /\ k' = AfterIssue(k, Len(tool_calls)).k
    /\ UNCHANGED << connection, messages, user_input, iteration, tool_calls,
                    tool_result, final_response, error, raised, result, queries,
                    sent, userTurns, anomalies >>
    /\ UNCHANGED << catalogVars, sentVars >>
    /\ UNCHANGED serverVars

\* client.py:162-166 and the loop heads of lines 141 and 115: the tool turn
\* of request k is appended and the loop moves on
RecordResult(text) ==
    /\ tool_result' = text
    /\ messages' = Append(messages, ToolMessage(tool_calls, k, text))
    /\ IF MoreToolCalls(k, Len(tool_calls))
       THEN /\ k' = k + 1
            /\ pc' = "dispatch"
            /\ UNCHANGED iteration
       ELSE /\ k' = k
            /\ pc' = "query"
            /\ iteration' = iteration + 1

\* client.py:150-156 and 162-166, session.call_tool returns a result
CallToolReturns ==
    /\ pc = "calling"
    /\ \E call \in inflight :
        /\ inflight' = inflight \ {call}
        /\ \E content \in (IF InCatalog(call.name, tools_list) THEN ResultContents
                           ELSE {UnknownToolContent}) :
            LET cost == IF content \in {NominalContent, UnknownToolContent} THEN 0 ELSE 1
            IN  /\ anomalies + cost <= MaxAnomalies
                /\ anomalies' = anomalies + cost
                /\ result' = [content |-> content]
                /\ RecordResult(ToolResultText(content))
    /\ UNCHANGED << connection, user_input, tool_calls, final_response, error,
                    callLog, raised, queries, sent, userTurns >>
    /\ UNCHANGED << catalogVars, sentVars >>
    /\ UNCHANGED serverVars

\* client.py:150, 158-159 and 162-166, session.call_tool raises
CallToolRaises ==
    /\ pc = "calling"
    /\ anomalies < MaxAnomalies
    /\ anomalies' = anomalies + 1
    /\ \E call \in inflight :
        /\ inflight' = inflight \ {call}
        /\ raised' = raised \cup {call}
    /\ RecordResult(ErrorText(McpError))
    /\ UNCHANGED << connection, user_input, tool_calls, final_response, error,
                    callLog, result, queries, sent, userTurns >>
    /\ UNCHANGED << catalogVars, sentVars >>
    /\ UNCHANGED serverVars

\* client.py:168-169 and 97, the for loop of line 115 is exhausted
ReturnTimeout ==
    /\ pc = "query"
    /\ BudgetExhausted(iteration)
    /\ final_response' = TIMEOUT_FALLBACK
    /\ pc' = "input"
    /\ UNCHANGED << connection, messages, user_input, iteration, tool_calls,
                    k, tool_result, error, inflight, callLog, raised, result, queries,
                    sent, userTurns, anomalies >>
    /\ UNCHANGED << catalogVars, sentVars >>
    /\ UNCHANGED serverVars

\* server.py:134-159: get_forecast is called, clamps days and sends the request
CallGetForecast ==
    /\ forecast.pc = "idle"
    /\ \E days \in DaysArgs :
        forecast' = [forecast EXCEPT !.pc = "requested",
                                     !.arg = days,
                                     !.days = ClampDays(days),
                                     !.cnt = Cnt(ClampDays(days))]
    /\ UNCHANGED << chatVars, catalogVars, sentVars >>

\* server.py:159-163: make_weather_request gives None
ForecastRequestFails ==
    /\ forecast.pc = "requested"
    /\ forecast' = [forecast EXCEPT !.pc = "returned", !.kind = "request failed"]
    /\ UNCHANGED << chatVars, catalogVars, sentVars >>

\* server.py:165-166: the API answers with an error code
ForecastApiError ==
    /\ forecast.pc = "requested"
    /\ forecast' = [forecast EXCEPT !.pc = "returned", !.kind = "api error"]
    /\ UNCHANGED << chatVars, catalogVars, sentVars >>

\* server.py:168-203: the API answers with cod "200" and a list of records
ForecastReturns ==
    /\ forecast.pc = "requested"
    /\ \E list \in RecordLists :
        /\ Len(list) <= forecast.cnt
        /\ forecast' = [forecast EXCEPT !.pc = "returned",
                                        !.kind = "forecast",
                                        !.list = list,
                                        !.forecasts = GroupByDay(list, forecast.days)]
    /\ UNCHANGED << chatVars, catalogVars, sentVars >>

\* server.py:134-207, one call of get_forecast
NextForecast ==
    \/ CallGetForecast
    \/ ForecastRequestFails
    \/ ForecastApiError
    \/ ForecastReturns

SpecForecast == Init /\ [][NextForecast]_vars

Next ==
    \/ Connect
    \/ ListServerTools
    \/ ListToolsFails
    \/ Interrupt
    \/ ReadExit
    \/ ReadEmpty
    \/ ReadUserTurn
    \/ QueryModelFinal
    \/ QueryModelTools
    \/ QueryModelFails
    \/ ParseFails
    \/ IssueCall
    \/ CallToolReturns
    \/ CallToolRaises
    \/ ReturnTimeout

Spec == Init /\ [][Next]_vars

\* client.py:80-93 in a session of at most MaxFairTurns user turns
ReadUserTurnFair == userTurns < MaxFairTurns /\ ReadUserTurn

\* the steps of such a session
NextFair ==
    \/ Connect
    \/ ListServerTools
    \/ ListToolsFails
    \/ Interrupt
    \/ ReadExit
    \/ ReadEmpty
    \/ ReadUserTurnFair
    \/ QueryModelFinal
    \/ QueryModelTools
    \/ QueryModelFails
    \/ ParseFails
    \/ IssueCall
    \/ CallToolReturns
    \/ CallToolRaises
    \/ ReturnTimeout

\* The session under the conditions a run of process_conversation relies on:
\* a model query that was made returns or fails (client.py:117), a provider
\* call that was made returns or raises (line 150), and the program's own
\* steps (lines 141-146, 168-169) are taken.  The user may stay at the prompt
\* forever and need not interrupt.
FairSpec ==
    /\ Init /\ [][NextFair]_vars
    /\ WF_vars(QueryModelFinal \/ QueryModelTools \/ QueryModelFails)
    /\ WF_vars(CallToolReturns \/ CallToolRaises)
    /\ WF_vars(IssueCall)
    /\ WF_vars(ParseFails)
    /\ WF_vars(ReturnTimeout)

\* client.py:36-52: the startup of a session against an arbitrary provider
NextAdapt ==
    \/ Connect
    \/ ListAnyTools

SpecAdapt == Init /\ [][NextAdapt]_vars

TypeOK ==
    /\ pc \in Active \cup {"connect", "list", "input", "ended"}
    /\ connection \in {"open", "closed"}
    /\ iteration \in 0..max_iterations
    /\ queries \in 0..(max_iterations + 1)
    /\ userTurns \in 0..MaxUserTurns
    /\ anomalies \in 0..MaxAnomalies

----------------------------------------------------------------------------
(***************************************************************************)
(* Operators on histories used by the properties.                          *)
(***************************************************************************)
IsPrefix(s, t) == Len(s) <= Len(t) /\ SubSeq(t, 1, Len(s)) = s

\* the requests of assistant turn a whose identifier is id
RequestsMatching(h, a, id) ==
    { j \in 1..Len(h[a].tool_calls) : h[a].tool_calls[j].id = id }

RequestIndex(h, p) ==
    CHOOSE j \in RequestsMatching(h, NearestAssistant(h, p), h[p].tool_call_id) : TRUE

\* request j of assistant turn i has its tool turn at position i + j
Recorded(h, i, j) ==
    /\ i + j <= Len(h)
    /\ h[i + j].role = "tool"
    /\ h[i + j].tool_call_id = h[i].tool_calls[j].id

\* every assistant turn is followed by one tool turn per request, no more
Paired(h) ==
    \A i \in AssistantIdx(h) :
        LET n == Len(h[i].tool_calls)
        IN  /\ \A j \in 1..n : Recorded(h, i, j)
            /\ (i + n + 1 <= Len(h) => h[i + n + 1].role # "tool")

\* the calls issued for request j of assistant turn i
IssuedFor(i, j) ==
    { c \in 1..Len(callLog) : callLog[c].at = i /\ callLog[c].j = j }

\* the loop is no longer working on request j of assistant turn i, and the
\* user did not interrupt the process
DispatchOver(i, j) ==
    /\ error # KeyboardInterrupt
    /\ ~ (/\ i = CurrentAssistant
          /\ pc \in {"dispatch", "calling"}
          /\ k <= j)

\* assistant turns appended since the latest user turn
TurnsOfInvocation ==
    { i \in AssistantIdx(messages) :
        \A u \in i..Len(messages) : messages[u].role # "user" }

ErrorTexts == { ErrorText(e) : e \in {McpError, AttributeError, JSONDecodeError} }

----------------------------------------------------------------------------
(***************************************************************************)
(* Properties.                                                             *)
(***************************************************************************)

\* C1: an invocation of process_conversation issues at most max_iterations
\* model queries, and once all five responses of an invocation carried
\* tool-call requests the invocation is over with the timeout fallback as its
\* returned value (never model content, never a sixth query).
C1_BudgetThenTimeout ==
    /\ queries <= max_iterations
    /\ ( /\ Cardinality(TurnsOfInvocation) = max_iterations
         /\ \A i \in TurnsOfInvocation : messages[i].tool_calls # << >>
         /\ pc \notin Active
         /\ error # KeyboardInterrupt )
       => final_response = TIMEOUT_FALLBACK

\* the tool turn at position p of h names exactly one request of the nearest
\* preceding assistant turn, only tool turns lie between the two, and they
\* answer earlier requests of that turn
ToolTurnMatches(h, p) ==
    LET a == NearestAssistant(h, p)
    IN  /\ a > 0
        /\ \A q \in (a + 1)..(p - 1) : h[q].role = "tool"
        /\ Cardinality(RequestsMatching(h, a, h[p].tool_call_id)) = 1
        /\ \A q \in (a + 1)..(p - 1) : RequestIndex(h, q) < RequestIndex(h, p)

\* C2: every tool turn names exactly one request of the nearest preceding
\* assistant turn, only tool turns lie between the two, and the tool turns
\* after an assistant turn are in the order of their requests.  Stated on
\* the steps: the turns already in the history stay as they are and every
\* turn a step adds, if a tool turn, has the property.
C2_ToolTurnsMatchRequests ==
    [][ /\ IsPrefix(messages, messages')
        /\ \A p \in (Len(messages) + 1)..Len(messages') :
               messages'[p].role = "tool" => ToolTurnMatches(messages', p) ]_vars

\* C2 witness: a two-request assistant turn answered by two tool turns, in a
\* history that already holds an earlier answered request with the same id
C2_Witness ==
    \E p \in 3..Len(messages) :
        /\ messages[p].role = "tool"
        /\ messages[p - 1].role = "tool"
        /\ messages[p].tool_call_id = CallId(2)
        /\ \E q \in 1..(p - 3) : messages[q].role = "tool"

\* C3: whatever subset of the provider calls of an assistant turn fails, every
\* request of the turn is invoked and gets its tool turn; a failed call is
\* recorded as an error text and never leaves process_conversation.
C3_FailuresAreIsolated ==
    /\ error # McpError
    /\ \A c \in raised :
           /\ Recorded(messages, c.at, c.j)
           /\ messages[c.at + c.j].content \in ErrorTexts
    /\ \A i \in AssistantIdx(messages) :
           \A j \in 1..Len(messages[i].tool_calls) :
               DispatchOver(i, j) =>
                   /\ Recorded(messages, i, j)
                   /\ ParseError(messages[i].tool_calls[j].arguments) = None
                          => Cardinality(IssuedFor(i, j)) = 1

\* C4: a request whose payload does not parse to a mapping gets a tool turn
\* with a failure text, and the parse failure does not end the turn, the loop
\* or the process.
C4_ParseFailureIsRecorded ==
    /\ error \notin {JSONDecodeError, AttributeError}
    /\ \A i \in AssistantIdx(messages) :
           \A j \in 1..Len(messages[i].tool_calls) :
               ( /\ ParseError(messages[i].tool_calls[j].arguments) # None
                 /\ DispatchOver(i, j) )
               => /\ Recorded(messages, i, j)
                  /\ messages[i + j].content \in ErrorTexts

\* C5: a model query that fails aborts the user turn only: the shell is back
\* at its prompt with the provider connection still open.
C5_ModelFailureKeepsSession ==
    [][ ( /\ pc = "query"
          /\ queries' = queries + 1
          /\ messages' = messages )
        => ( pc' = "input" /\ connection' = "open" ) ]_vars

\* C6: a response without tool calls and with non-empty content ends the
\* invocation at once with that content as the result; it adds one assistant
\* turn, no tool turn, and no provider call is made for it.
C6_DirectAnswer ==
    \A i \in AssistantIdx(messages) :
        ( messages[i].tool_calls = << >> /\ Truthy(messages[i].content) ) =>
            /\ i = Len(messages) =>
                   /\ pc \notin Active
                   /\ final_response = messages[i].content
                   /\ inflight = {}
            /\ i < Len(messages) => messages[i + 1].role = "user"
            /\ \A c \in 1..Len(callLog) : callLog[c].at # i

\* C6 witness: the answer arrives after one round of tool calls
C6_Witness ==
    /\ pc = "input"
    /\ queries = 2
    /\ Last(messages).role = "assistant"
    /\ Last(messages).tool_calls = << >>
    /\ Truthy(Last(messages).content)
    /\ final_response = Last(messages).content

\* C7: a response without tool calls whose content is empty or absent makes
\* the invocation return the empty-content fallback, without an error; that
\* text differs from the timeout fallback, which is the result only of an
\* invocation that used up its iteration budget.
C7_EmptyContentFallback ==
    /\ ( /\ pc \notin Active
         /\ Last(messages).role = "assistant"
         /\ Last(messages).tool_calls = << >>
         /\ ~ Truthy(Last(messages).content) )
       => ( final_response = EMPTY_FALLBACK /\ error \in {None, KeyboardInterrupt} )
    /\ EMPTY_FALLBACK # TIMEOUT_FALLBACK
    /\ final_response = TIMEOUT_FALLBACK =>
           ( iteration = max_iterations /\ queries = max_iterations )

\* C7 witness: absent content (None) after a round of tool calls
C7_Witness ==
    /\ pc = "input"
    /\ queries = 2
    /\ Last(messages).role = "assistant"
    /\ Last(messages).tool_calls = << >>
    /\ Last(messages).content = None
    /\ final_response = EMPTY_FALLBACK

\* C8: the history only grows by appending (every step leaves the old history
\* a prefix of the new one), and every model query is handed the whole
\* current history.
C8_AppendOnlyFullReplay ==
    [][ /\ IsPrefix(messages, messages')
        /\ queries' = queries + 1 => sent' = messages ]_vars

\* C8 witness: a query of the second user turn carries the first turn's
\* assistant and tool turns
C8_Witness ==
    /\ userTurns = 2
    /\ queries >= 1
    /\ Len(sent) >= 6
    /\ sent[1].role = "system"
    /\ \E i \in 1..Len(sent) : sent[i].role = "tool"

\* C9: at most one provider call is in flight, the calls of an assistant turn
\* are issued in request order, and while the call of request j is in flight
\* exactly the tool turns of requests 1..j-1 of that turn are recorded.
C9_SequentialDispatch ==
    /\ Cardinality(inflight) <= 1
    /\ \A c \in inflight :
           /\ Len(messages) = c.at + c.j - 1
           /\ \A j \in 1..(c.j - 1) : Recorded(messages, c.at, j)
    /\ \A c \in 1..(Len(callLog) - 1) :
           /\ callLog[c].at <= callLog[c + 1].at
           /\ callLog[c].at = callLog[c + 1].at => callLog[c].j < callLog[c + 1].j

\* C9 witness: the call of the second request of a turn is in flight
C9_Witness ==
    /\ pc = "calling"
    /\ k = 2
    /\ \E c \in inflight : c.j = 2

\* C10: the history handed to any model query, and the history whenever the
\* loop is about to query, has every assistant turn followed by exactly one
\* tool turn per request.  Stated on the steps: whenever a step hands a
\* history to the model, and whenever a step leaves the loop about to query.
C10_QueriesSeePairedHistory ==
    [][ /\ sent' # sent => Paired(sent')
        /\ queries' = queries + 1 => Paired(sent')
        /\ pc' = "query" => Paired(messages') ]_vars

\* C10 witness: a query of the second user turn, the first turn having used up
\* its budget on two-request and one-request assistant turns
C10_Witness ==
    /\ userTurns = 2
    /\ queries >= 1
    /\ Len(sent) >= 14
    /\ Last(sent).role = "user"
    /\ sent[Len(sent) - 1].role = "tool"
    /\ sent[Len(sent) - 2].role = "tool"

\* the texts a tool turn carries for a request of a tool the provider does not
\* know: the provider's own error result, or the text of a raised failure
UnknownToolTexts == ErrorTexts \cup { UnknownToolContent[1].text }

\* the tool turn at position p of h answers a request for a tool absent from
\* the catalog
AnswersUnknownTool(h, p) ==
    /\ h[p].role = "tool"
    /\ LET a == NearestAssistant(h, p)
       IN  a > 0 /\ ~ InCatalog(h[a].tool_calls[p - a].name, tools_list)

\* C11: when the call of a request naming a tool absent from the catalog
\* completes (the provider answers with its error result, or the call
\* raises), a failure text is appended as that request's tool turn, the loop
\* moves on to the next request or the next query with the session intact,
\* and every later model query is handed that tool turn.
C11_UnknownToolIsRecorded ==
    [][ /\ \A c \in inflight \ inflight' :
               ~ InCatalog(c.name, tools_list) =>
                   /\ Len(messages') = c.at + c.j
                   /\ Recorded(messages', c.at, c.j)
                   /\ messages'[c.at + c.j].content \in UnknownToolTexts
                   /\ pc' = IF c.j < Len(messages[c.at].tool_calls)
                            THEN "dispatch" ELSE "query"
                   /\ error' = None
                   /\ connection' = "open"
        /\ queries' = queries + 1 =>
               \A p \in 1..Len(messages) :
                   AnswersUnknownTool(messages, p) =>
                       /\ p <= Len(sent')
                       /\ sent'[p] = messages[p]
                       /\ sent'[p].content \in UnknownToolTexts ]_vars

\* C11 witness: the second query of a user turn was handed the tool turn that
\* answers a request for get_tides with the provider's error text
C11_Witness ==
    /\ queries >= 2
    /\ \E p \in 1..Len(sent) :
           /\ sent[p].role = "tool"
           /\ sent[p].content = UnknownToolContent[1].text
    /\ \E c \in 1..Len(callLog) : callLog[c].name = UnknownTool

RECURSIVE FirstText(_)
FirstText(content) ==
    IF content[1].type = "text" THEN content[1].text ELSE FirstText(Tail(content))

\* C13: when a provider call returns a result with at least one text element,
\* the tool turn of its request holds the text of the first such element,
\* wherever in the content list the text elements are.
C13_FirstTextIsRecorded ==
    [][ \A c \in inflight \ inflight' :
            ( /\ raised' = raised
              /\ \E i \in 1..Len(result'.content) : result'.content[i].type = "text" )
            => /\ Recorded(messages', c.at, c.j)
               /\ messages'[c.at + c.j].content = FirstText(result'.content) ]_vars

\* C14: the converted list has the length and order of the listed catalog;
\* entry i has type 'function' and the name and the input schema of
\* descriptor i unchanged; a descriptor without description gets the fixed
\* placeholder, a non-empty description is kept, and no converted
\* description is the empty string.
C14_AdapterPreservesCatalog ==
    conversions > 0 =>
        /\ Len(openai_tools) = Len(tools_list)
        /\ \A i \in 1..Len(tools_list) :
               /\ openai_tools[i].type = "function"
               /\ openai_tools[i].function.name = tools_list[i].name
               /\ openai_tools[i].function.parameters = tools_list[i].inputSchema
               /\ tools_list[i].description = None
                      => openai_tools[i].function.description = NO_DESCRIPTION
               /\ tools_list[i].description \notin {None, ""}
                      => openai_tools[i].function.description = tools_list[i].description
               /\ openai_tools[i].function.description # ""
               /\ openai_tools[i].function.description # None

\* C14 witness: a converted catalog of two different tools, the first without
\* description and the second with an empty one
C14_Witness ==
    /\ conversions = 1
    /\ Len(tools_list) = 2
    /\ tools_list[1].name # tools_list[2].name
    /\ tools_list[1].description = None
    /\ tools_list[2].description = ""
    /\ openai_tools[1].function.description = NO_DESCRIPTION

\* C15: the catalog is listed at most once and converted at most once in a
\* session; once converted, neither the listed nor the converted catalog
\* changes; and every model query, in whatever user turn, is made after the
\* one listing and the one conversion and is handed the converted catalog
\* with tool_choice 'auto'.
C15_CatalogOncePerSession ==
    [][ /\ listings' <= 1
        /\ conversions' <= 1
        /\ conversions = 1 =>
               ( tools_list' = tools_list /\ openai_tools' = openai_tools )
        /\ queries' = queries + 1 =>
               /\ listings = 1
               /\ conversions = 1
               /\ openai_tools = convert_mcp_tools_to_openai(tools_list)
               /\ sentTools' = openai_tools
               /\ sentChoice' = TOOL_CHOICE ]_vars

\* C15 witness: a query of the second user turn was handed the two converted
\* tools of the server
C15_Witness ==
    /\ userTurns = 2
    /\ queries >= 1
    /\ listings = 1
    /\ conversions = 1
    /\ Len(sentTools) = 2
    /\ sentTools = openai_tools
    /\ sentTools[2].function.name = "get_forecast"
    /\ sentChoice = TOOL_CHOICE

\* C16: every accepted user turn appends the user's text to the history kept
\* from the earlier turns and starts process_conversation with the iteration
\* counter at 0; an invocation ends with the timeout fallback only after five
\* model queries of its own; and each of its queries, at most five, is handed
\* the history with all earlier turns in it.
C16_FreshBudgetPerTurn ==
    [][ /\ userTurns' = userTurns + 1 =>
               /\ iteration' = 0
               /\ queries' = 0
               /\ pc' = "query"
               /\ messages' = Append(messages, UserMessage(user_input'))
        /\ ( pc = "query" /\ final_response' = TIMEOUT_FALLBACK ) =>
               /\ queries = max_iterations
               /\ Cardinality(TurnsOfInvocation) = max_iterations
        /\ queries' = queries + 1 =>
               /\ queries < max_iterations
               /\ queries = Cardinality(TurnsOfInvocation)
               /\ sent' = messages ]_vars

\* C16 witness: the fifth query of the second user turn, the first turn having
\* used up its five queries; the query was handed both turns
C16_Witness ==
    /\ userTurns = 2
    /\ queries = max_iterations
    /\ Len(sent) >= 21
    /\ sent[2].role = "user"
    /\ sent[13].role = "user"
    /\ \A p \in 3..12 : sent[p].role \in {"assistant", "tool"}

\* the ways a session ends: exit keyword (no error), user interrupt, error of
\* a model query, error of the tool dispatch, error of the listing
SessionEnds == {None, KeyboardInterrupt, APIError, JSONDecodeError, AttributeError,
                ListToolsError}

\* C17: whichever way the session ends (exit keyword, user interrupt, error
\* of a model query, error of the tool dispatch), the step that ends it
\* releases the provider connection: no ended session holds it; and a session
\* that goes on keeps it.
C17_ConnectionReleased ==
    [][ /\ pc' = "ended" => ( connection' = "closed" /\ error' \in SessionEnds )
        /\ pc' \notin {"ended", "connect"} => connection' = "open" ]_vars

\* C17 witness: a session ended by an error of the tool dispatch, after a
\* provider call of the same user turn had been answered
C17_Witness ==
    /\ pc = "ended"
    /\ connection = "closed"
    /\ error \in {JSONDecodeError, AttributeError}
    /\ Last(messages).role = "assistant"
    /\ \E p \in 1..Len(messages) : messages[p].role = "tool"

\* the provider invocations made for request j of assistant turn i with the
\* name and the arguments of that request
InvocationsOf(i, j) ==
    { c \in 1..Len(callLog) :
        /\ callLog[c].at = i
        /\ callLog[c].j = j
        /\ callLog[c].name = messages[i].tool_calls[j].name
        /\ callLog[c].arguments = messages[i].tool_calls[j].arguments }

\* the requests with a well-formed payload in the history
WellFormedRequests ==
    { << i, j >> \in (1..Len(messages)) \X (1..3) :
        /\ i \in AssistantIdx(messages)
        /\ j <= Len(messages[i].tool_calls)
        /\ ParseError(messages[i].tool_calls[j].arguments) = None }

\* C18: once the loop is done with a request whose payload is well formed,
\* exactly one provider invocation was made for it, with its name and
\* arguments, whether or not an identical request came before; and when no
\* dispatch is under way the invocations are as many as those requests.
C18_OneInvocationPerRequest ==
    /\ \A r \in WellFormedRequests :
           DispatchOver(r[1], r[2]) => Cardinality(InvocationsOf(r[1], r[2])) = 1
    /\ ( pc \notin {"dispatch", "calling"} /\ error # KeyboardInterrupt )
           => Len(callLog) = Cardinality(WellFormedRequests)

\* process_conversation is over: it returned a text to main, or an error (or
\* the user's interrupt) left it and ended the session
Finished ==
    \/ pc = "input" /\ final_response # None
    \/ pc = "ended" /\ error # None

\* C19: when every model query and every provider call that is made returns
\* or fails, an invocation of process_conversation that is under way is
\* eventually over: it has returned a text (model content, the empty-content
\* fallback or the timeout fallback) or an error has left it.
C19_InvocationTerminates == (pc \in Active) ~> Finished

\* C19 witness: an invocation returned the timeout fallback after the model
\* requested tools on each of its five responses
C19_Witness ==
    /\ pc = "input"
    /\ final_response = TIMEOUT_FALLBACK
    /\ queries = max_iterations
    /\ Cardinality(TurnsOfInvocation) = max_iterations
    /\ \A i \in TurnsOfInvocation : messages[i].tool_calls # << >>

\* the records of block b are the records a..z of the list, a maximal run of
\* one date: the record before a and the record after z have other dates
IsMaximalRun(block, list) ==
    /\ block.items # << >>
    /\ LET a == block.items[1].idx
           z == block.items[Len(block.items)].idx
       IN  /\ z - a + 1 = Len(block.items)
           /\ \A n \in 1..Len(block.items) :
                  /\ block.items[n] = list[a + n - 1]
                  /\ block.items[n].date = block.date
           /\ a > 1 => list[a - 1].date # block.date
           /\ z < Len(list) => list[z + 1].date # block.date

\* C20: whatever integer days is passed, get_forecast works with d, the
\* argument clamped into 1..5, and asks for 8 * d records; a successful
\* response gives at most d day blocks, each made of a maximal run of
\* consecutive records of one date, and no record is in two blocks.
C20_ForecastBlocks ==
    /\ forecast.pc # "idle" =>
           /\ forecast.days \in MIN_DAYS..MAX_DAYS
           /\ forecast.arg \in MIN_DAYS..MAX_DAYS => forecast.days = forecast.arg
           /\ forecast.arg < MIN_DAYS => forecast.days = MIN_DAYS
           /\ forecast.arg > MAX_DAYS => forecast.days = MAX_DAYS
           /\ forecast.cnt = 8 * forecast.days
    /\ forecast.kind = "forecast" =>
           /\ Len(forecast.forecasts) <= forecast.days
           /\ \A b \in 1..Len(forecast.forecasts) :
                  IsMaximalRun(forecast.forecasts[b], forecast.list)
           /\ \A b, c \in 1..Len(forecast.forecasts) :
                  b # c => \A m \in 1..Len(forecast.forecasts[b].items),
                              n \in 1..Len(forecast.forecasts[c].items) :
                               forecast.forecasts[b].items[m].idx
                                   # forecast.forecasts[c].items[n].idx

\* C20 witness: days = 0 is clamped to 1; the response has records of two
\* days, the first day with two records, and one block is returned
C20_Witness ==
    /\ forecast.kind = "forecast"
    /\ forecast.arg = 0
    /\ forecast.days = 1
    /\ Len(forecast.list) = 4
    /\ forecast.list[1].date = forecast.list[2].date
    /\ forecast.list[3].date # forecast.list[2].date
    /\ Len(forecast.forecasts) = 1
    /\ Len(forecast.forecasts[1].items) = 2

=============================================================================
